---- MODULE Spec2Model ----
(***************************************************************************)
(* Model of services/video_stream.py: VideoStream (one capture thread per  *)
(* start(), a bounded queue.Queue of frames) and MultiCameraManager (the   *)
(* registry dict `streams`), with the callers that drive them.             *)
(*                                                                         *)
(* A frame is modelled by its capture number: the k-th frame the source    *)
(* of a VideoStream delivers is the number k.  0 stands for None.          *)
(***************************************************************************)
EXTENDS Naturals, Integers, Sequences, FiniteSets, Bags, TLC

\* ---------------------------------------------------------------- bounds
\* MultiCameraManager(max_streams=...), scaled down from the default 4
max_streams == 2
\* VideoStream(buffer_size=...), scaled down from the default 30
buffer_size == 2
\* VideoStream objects constructed in one run: one more than the registry
\* may hold
MaxObjects == max_streams + 1
\* capture threads launched for one VideoStream
MaxThreads == 2
\* frames one source delivers; every further read of it fails
MaxFrames == 3

StreamIds == {"cam1", "cam2", "cam3"}
Sources == {"rtsp://a", "rtsp://b"}
Callers == {1, 2}

VARIABLES
    streams,    \* MultiCameraManager.streams: stream_id -> VideoStream (index in objs)
    objs,       \* the VideoStream objects constructed so far, in construction order
    threads,    \* the capture threads started so far, as the bag of their states
    calls,      \* per caller: the call in progress (position, arguments, locals)
    last,       \* the call that returned last: operation, result, logged event
    delivered,  \* per VideoStream: number of frames its source has delivered
    pushed,     \* per VideoStream: the frames put into frame_queue since the
                \* last read() of it, in put order
    view,       \* the create_multi_view calls: arguments, position, value returned
    limiter     \* the RateLimiter: its three request lists per user, the clock
                \* time.time() reads, and the requests admitted so far

vars == <<streams, objs, threads, calls, last, delivered, pushed, view, limiter>>

ObjIds == 1..Len(objs)

\* the states the capture threads are in
ThreadStates == BagToSet(threads)

\* the bag B with one thread moved from state r to state r2
Moved(B, r, r2) == (B (-) SetToBag({r})) (+) SetToBag({r2})

\* ------------------------------------------------------------ queue.Queue
\* Queue.full(): 0 < maxsize <= qsize
QueueFull(q) == Len(q) >= buffer_size

\* Queue.empty()
QueueEmpty(q) == Len(q) = 0

\* a put that never waits for room
PutNeverWaits(q) == TRUE

\* Queue.put(item) with block=True returns only once qsize < maxsize
PutCanProceed(q) == Len(q) < buffer_size

\* a get that takes the newest item instead of the oldest
QueueGetNewest(q) == IF Len(q) = 0 THEN q ELSE SubSeq(q, 1, Len(q) - 1)

\* Queue.get_nowait(): the head of the FIFO; raises Empty (swallowed by the
\* callers' bare except) when there is none
QueueGet(q) == IF Len(q) = 0 THEN q ELSE Tail(q)

QueueHead(q) == IF Len(q) = 0 THEN 0 ELSE Head(q)

\* ------------------------------------------------------------ VideoStream
\* VideoStream.__init__
NewVideoStream(source, stream_id) ==
    [source |-> source, stream_id |-> stream_id,
     stream |-> "None", frame_queue |-> <<>>, stopped |-> FALSE,
     thread |-> "None", frame_count |-> 0]

\* a Thread(target=self._capture_frames) just started; the locals ret, frame
\* and the loaded frame_count are kept only while the loop still uses them
NewThread(o) == [obj |-> o, pc |-> "while", ret |-> "unset", frame |-> 0, cnt |-> 0]

\* a caller that is in no call; keys and frames are the locals of stop_all
\* and get_all_frames: the ids still to visit and the dict built so far
Idle == [pc |-> "idle", op |-> "none", stream_id |-> "none", source |-> "none",
         obj |-> 0, ret |-> "none", keys |-> <<>>, frames |-> <<>>]

\* before any call has returned
NoReturn == [op |-> "none", result |-> "none", event |-> "none", frame |-> 0]

\* caller c returns `result` from `call`, having logged `event`; frame is the
\* frame returned (0 when the result is not a frame)
Return(c, call, result, event, frame) ==
    /\ calls' = [calls EXCEPT ![c] = Idle]
    /\ last' = [op |-> call.op, result |-> result, event |-> event, frame |-> frame]

\* caller c goes on in its call, now at `call`
Continue(c, call) ==
    /\ calls' = [calls EXCEPT ![c] = call]
    /\ last' = last

\* the capture threads of VideoStream o that have not returned, and their
\* number
LiveThreads(o) ==
    [r \in {x \in ThreadStates : x.obj = o /\ x.pc # "done"} |-> CopiesIn(r, threads)]
NumLive(o) == BagCardinality(LiveThreads(o))

\* get_stats()["is_active"]
IsActive(o) == ~objs[o].stopped

\* get_stats(), without fps and resolution
GetStats(o) ==
    [stream_id |-> objs[o].stream_id,
     frames_processed |-> objs[o].frame_count,
     buffer_size |-> Len(objs[o].frame_queue),
     is_active |-> IsActive(o)]

\* ------------------------------------------------ _capture_frames, by step
\* Each step is taken by one thread that is in state r.
\* `while not self.stopped`
LoopWhile(r) ==
    /\ r.pc = "while"
    /\ threads' = Moved(threads, r,
                        [r EXCEPT !.pc = IF objs[r.obj].stopped THEN "done" ELSE "opened",
                                  !.ret = "unset"])
    /\ UNCHANGED <<view, limiter, streams, objs, calls, last, delivered, pushed>>

\* `if not self.stream.isOpened(): break`
LoopOpened(r) ==
    /\ r.pc = "opened"
    /\ threads' = Moved(threads, r,
                        [r EXCEPT !.pc = IF objs[r.obj].stream # "opened"
                                         THEN "done" ELSE "read"])
    /\ UNCHANGED <<view, limiter, streams, objs, calls, last, delivered, pushed>>

\* where a failed read sends the loop: `continue`
AfterFailedRead == "while"

\* `ret, frame = self.stream.read()` and `if not ret: ... continue`
LoopRead(r) ==
    LET o == r.obj IN
    /\ r.pc = "read"
    /\ \E ok \in BOOLEAN :
          /\ ok => (objs[o].stream = "opened" /\ delivered[o] < MaxFrames)
          /\ IF ok
             THEN /\ delivered' = [delivered EXCEPT ![o] = @ + 1]
                  /\ threads' = Moved(threads, r,
                                      [r EXCEPT !.pc = "full", !.ret = "ok",
                                                !.frame = delivered[o] + 1])
             ELSE /\ delivered' = delivered
                  /\ threads' = Moved(threads, r,
                                      [r EXCEPT !.pc = AfterFailedRead, !.ret = "fail",
                                                !.frame = 0])
    /\ UNCHANGED <<view, limiter, streams, objs, calls, last, pushed>>

\* `if self.frame_queue.full():`
LoopFull(r) ==
    /\ r.pc = "full"
    /\ threads' = Moved(threads, r,
                        [r EXCEPT !.pc = IF QueueFull(objs[r.obj].frame_queue)
                                         THEN "evict" ELSE "put"])
    /\ UNCHANGED <<view, limiter, streams, objs, calls, last, delivered, pushed>>

\* `try: self.frame_queue.get_nowait() except: pass`
LoopEvict(r) ==
    /\ r.pc = "evict"
    /\ objs' = [objs EXCEPT ![r.obj].frame_queue = QueueGet(@)]
    /\ threads' = Moved(threads, r, [r EXCEPT !.pc = "put"])
    /\ UNCHANGED <<view, limiter, streams, calls, last, delivered, pushed>>

\* `self.frame_queue.put(frame)`
LoopPut(r) ==
    /\ r.pc = "put"
    /\ PutCanProceed(objs[r.obj].frame_queue)
    /\ objs' = [objs EXCEPT ![r.obj].frame_queue = Append(@, r.frame)]
    /\ pushed' = [pushed EXCEPT ![r.obj] = Append(@, r.frame)]
    /\ threads' = Moved(threads, r, [r EXCEPT !.pc = "count", !.frame = 0, !.ret = "unset"])
    /\ UNCHANGED <<view, limiter, streams, calls, last, delivered>>

\* `self.frame_count += 1`, the load of the attribute
LoopCount(r) ==
    /\ r.pc = "count"
    /\ threads' = Moved(threads, r,
                        [r EXCEPT !.pc = "store", !.cnt = objs[r.obj].frame_count])
    /\ UNCHANGED <<view, limiter, streams, objs, calls, last, delivered, pushed>>

\* `self.frame_count += 1`, the store of the sum; then the sleep, which
\* changes nothing
LoopStore(r) ==
    /\ r.pc = "store"
    /\ objs' = [objs EXCEPT ![r.obj].frame_count = r.cnt + 1]
    /\ threads' = Moved(threads, r, [r EXCEPT !.pc = "while", !.cnt = 0])
    /\ UNCHANGED <<view, limiter, streams, calls, last, delivered, pushed>>

\* one step of the capture thread that is in state r
CaptureStep(r) ==
    \/ LoopWhile(r) \/ LoopOpened(r) \/ LoopRead(r) \/ LoopFull(r)
    \/ LoopEvict(r) \/ LoopPut(r) \/ LoopCount(r) \/ LoopStore(r)

\* ------------------------------------------------------- VideoStream.start
\* a start() result that is not looked at
StartResultIgnored(ok) == TRUE

\* add_stream, line 185: `if stream.start():` registers the stream
StartSucceeded(ok) == ok

\* start() returns ok to its caller: add_stream registers the stream on True
\* and returns False otherwise (lines 185-189); any other caller gets ok
StartReturn(c, call, ok) ==
    IF call.ret = "add"
    THEN IF StartSucceeded(ok)
         THEN Continue(c, [call EXCEPT !.pc = "add_insert"])
         ELSE Return(c, call, "False", "stream_open_failed", 0)
    ELSE Return(c, call, IF ok THEN "True" ELSE "False",
                IF ok THEN "video_stream_started" ELSE "stream_open_failed", 0)

\* the capture threads launched for VideoStream o, and the callers that have
\* opened its source and not yet launched its thread
ThreadsOf(o) == [r \in {x \in ThreadStates : x.obj = o} |-> CopiesIn(r, threads)]
NumThreads(o) == BagCardinality(ThreadsOf(o))
Launching(o) == {c \in Callers : calls[c].pc = "start_launch" /\ calls[c].obj = o}

\* an isOpened() that reports every handle open
AlwaysOpened(handle) == TRUE

\* `self.stream.isOpened()` of the handle start() has just made
IsOpened(handle) == handle = "opened"

\* `self.stream = cv2.VideoCapture(self.source)` and
\* `if not self.stream.isOpened(): return False`
StartOpen(c, o, call) ==
    /\ \E ok \in BOOLEAN :
          LET handle == IF ok THEN "opened" ELSE "failed" IN
          /\ ok => NumThreads(o) + Cardinality(Launching(o)) < MaxThreads
          /\ objs' = [objs EXCEPT ![o].stream = handle]
          /\ IF IsOpened(handle)
             THEN Continue(c, [call EXCEPT !.pc = "start_launch"])
             ELSE StartReturn(c, call, FALSE)
    /\ UNCHANGED <<view, limiter, streams, threads, delivered, pushed>>

\* `self.stopped = False`, `self.thread = Thread(...)`, `self.thread.start()`,
\* `return True`
StartLaunch(c) ==
    LET o == calls[c].obj IN
    /\ calls[c].pc = "start_launch"
    /\ threads' = threads (+) SetToBag({NewThread(o)})
    /\ objs' = [objs EXCEPT ![o].stopped = FALSE, ![o].thread = "Thread"]
    /\ StartReturn(c, calls[c], TRUE)
    /\ UNCHANGED <<view, limiter, streams, delivered, pushed>>

\* a caller calls start() on VideoStream o, started before or not, as
\* routes/streams.py start_stream does with the stream it looked up
VideoStreamStart(c, o) ==
    /\ calls[c].pc = "idle"
    /\ StartOpen(c, o, [Idle EXCEPT !.op = "start", !.obj = o, !.ret = "call"])

\* -------------------------------------------------------- VideoStream.stop
\* `self.stopped = True`; stop() then waits in
\* `if self.thread is not None: self.thread.join(timeout=2)`
StopFlag(c, o, call) ==
    /\ objs' = [objs EXCEPT ![o].stopped = TRUE]
    /\ Continue(c, [call EXCEPT !.pc = "stop_join"])
    /\ UNCHANGED <<view, limiter, streams, threads, delivered, pushed>>

\* a join without timeout: it returns only once no capture loop of the
\* stream is running
JoinWaitsForExit(o) == NumLive(o) = 0

\* `self.thread.join(timeout=2)` returns: there is no thread, the thread has
\* returned, or the 2 s have passed
JoinReturns(o) == TRUE

\* a release without the None test: AttributeError on a stream that was
\* never started
ReleaseUnguarded(s) == IF s = "None" THEN "error" ELSE "released"

\* `if self.stream is not None: self.stream.release()`, on the handle s
Release(s) == IF s = "None" THEN "None" ELSE "released"

\* join() returns; then the release, and stop() returns, and remove_stream
\* goes on to its `del` (line 197)
StopRelease(c) ==
    LET o == calls[c].obj IN
    /\ calls[c].pc = "stop_join"
    /\ JoinReturns(o)
    /\ objs' = [objs EXCEPT ![o].stream = Release(@)]
    /\ IF calls[c].ret \in {"remove", "stop_all"}
       THEN Continue(c, [calls[c] EXCEPT !.pc = "rm_del"])
       ELSE Return(c, calls[c], "None", "video_stream_stopped", 0)
    /\ UNCHANGED <<view, limiter, streams, threads, delivered, pushed>>

\* a caller calls stop() on VideoStream o, as routes/streams.py stop_stream
\* does with the stream it looked up
VideoStreamStop(c, o) ==
    /\ calls[c].pc = "idle"
    /\ StopFlag(c, o, [Idle EXCEPT !.op = "stop", !.obj = o, !.ret = "call"])

\* -------------------------------------------------------- VideoStream.read
\* the frame get_nowait() yields for queue q; on an empty queue it raises
\* Empty and the bare `except` of read() returns None (0)
ReadResult(q) == IF QueueEmpty(q) THEN 0 ELSE QueueHead(q)

\* read(), lines 112-113, on VideoStream o for the caller of `call`:
\* `if self.frame_queue.empty(): return None`
ReadEmpty(c, o, call) ==
    /\ IF QueueEmpty(objs[o].frame_queue)
       THEN Return(c, call, "None", "none", 0)
       ELSE Continue(c, [call EXCEPT !.pc = "read_get", !.obj = o])
    /\ pushed' = [pushed EXCEPT ![o] = <<>>]
    /\ UNCHANGED <<view, limiter, streams, objs, threads, delivered>>

\* what `self.frame_queue.get_nowait()` does to VideoStream o
ReadEffect(o) ==
    /\ objs' = [objs EXCEPT ![o].frame_queue = QueueGet(@)]
    /\ pushed' = [pushed EXCEPT ![o] = <<>>]

\* read(), lines 115-118: `try: return self.frame_queue.get_nowait()`,
\* `except: return None`
ReadGet(c) ==
    LET o == calls[c].obj
        frame == ReadResult(objs[o].frame_queue)
    IN /\ calls[c].pc = "read_get"
       /\ ReadEffect(o)
       /\ Return(c, calls[c], IF frame = 0 THEN "None" ELSE "frame", "none", frame)
       /\ UNCHANGED <<view, limiter, streams, threads, delivered>>

\* a caller calls read() on VideoStream o
VideoStreamRead(c, o) ==
    /\ calls[c].pc = "idle"
    /\ ReadEmpty(c, o, [Idle EXCEPT !.op = "read"])

\* ------------------------------------------------------ MultiCameraManager
\* len(self.streams)
NumStreams == Cardinality(DOMAIN streams)

\* a capacity check that lets one stream too many in
OverCapacity == NumStreams > max_streams

\* `len(self.streams) >= self.max_streams`
AtCapacity == NumStreams >= max_streams

\* a duplicate check that never finds the id
NeverExists(stream_id) == FALSE

\* `stream_id in self.streams`
AlreadyExists(stream_id) == stream_id \in DOMAIN streams

\* callers between add_stream's two checks, each about to construct a stream
Constructing == {c \in Callers : calls[c].pc = "add_dup"}

\* add_stream, lines 174-178: the capacity check
AddStreamCap(c, source, stream_id) ==
    LET call == [Idle EXCEPT !.op = "add_stream", !.stream_id = stream_id,
                             !.source = source] IN
    /\ calls[c].pc = "idle"
    /\ Len(objs) + Cardinality(Constructing) < MaxObjects
    /\ IF AtCapacity
       THEN Return(c, call, "False", "max_streams_reached", 0)
       ELSE Continue(c, [call EXCEPT !.pc = "add_dup"])
    /\ UNCHANGED <<view, limiter, streams, objs, threads, delivered, pushed>>

\* add_stream, lines 180-184: the duplicate check, then VideoStream(source, stream_id)
AddStreamDup(c) ==
    /\ calls[c].pc = "add_dup"
    /\ IF AlreadyExists(calls[c].stream_id)
       THEN /\ Return(c, calls[c], "False", "stream_already_exists", 0)
            /\ UNCHANGED <<view, limiter, objs, delivered, pushed>>
       ELSE /\ objs' = Append(objs, NewVideoStream(calls[c].source, calls[c].stream_id))
            /\ delivered' = Append(delivered, 0)
            /\ pushed' = Append(pushed, <<>>)
            /\ Continue(c, [calls[c] EXCEPT !.pc = "start_open", !.obj = Len(objs) + 1,
                                            !.ret = "add"])
    /\ UNCHANGED <<view, limiter, streams, threads>>

\* add_stream, line 185: `stream.start()`, up to the open
AddStreamStart(c) ==
    /\ calls[c].pc = "start_open"
    /\ StartOpen(c, calls[c].obj, calls[c])

\* add_stream, lines 186-187: `self.streams[stream_id] = stream; return True`
AddStreamInsert(c) ==
    LET id == calls[c].stream_id IN
    /\ calls[c].pc = "add_insert"
    /\ streams' = [x \in DOMAIN streams \cup {id} |->
                      IF x = id THEN calls[c].obj ELSE streams[x]]
    /\ Return(c, calls[c], "True", "none", 0)
    /\ UNCHANGED <<view, limiter, objs, threads, delivered, pushed>>

\* a membership test that never reports the id missing
NeverMissing(stream_id) == FALSE

\* `stream_id not in self.streams`
NotRegistered(stream_id) == stream_id \notin DOMAIN streams

\* remove_stream, lines 193-196: the membership check and the lookup of
\* `self.streams[stream_id]`, which raises KeyError for a missing key
RemoveStreamCheck(c, stream_id) ==
    LET call == [Idle EXCEPT !.op = "remove_stream", !.stream_id = stream_id] IN
    /\ calls[c].pc = "idle"
    /\ IF NotRegistered(stream_id)
       THEN Return(c, call, "False", "none", 0)
       ELSE IF stream_id \in DOMAIN streams
            THEN Continue(c, [call EXCEPT !.obj = streams[stream_id], !.ret = "remove",
                                          !.pc = "stop_flag"])
            ELSE Return(c, call, "KeyError", "none", 0)
    /\ UNCHANGED <<view, limiter, streams, objs, threads, delivered, pushed>>

\* remove_stream, line 196: `.stop()`, its first statement
RemoveStreamStop(c) ==
    /\ calls[c].pc = "stop_flag"
    /\ StopFlag(c, calls[c].obj, calls[c])

\* a del that empties the dict
RegistryCleared(id) == <<>>

\* the dict after `del self.streams[stream_id]`
RegistryWithout(id) == [x \in DOMAIN streams \ {id} |-> streams[x]]

\* remove_stream, lines 197-200: `del self.streams[stream_id]; return True`;
\* del raises KeyError when the key is gone.  Called from stop_all, the
\* return leads back into stop_all's loop (line 221).
RemoveStreamDel(c) ==
    LET id == calls[c].stream_id IN
    /\ calls[c].pc = "rm_del"
    /\ IF id \in DOMAIN streams
       THEN /\ streams' = RegistryWithout(id)
            /\ IF calls[c].ret = "stop_all"
               THEN Continue(c, [calls[c] EXCEPT !.pc = "sa_loop", !.stream_id = "none",
                                                 !.obj = 0])
               ELSE Return(c, calls[c], "True", "stream_removed", 0)
       ELSE /\ streams' = streams
            /\ Return(c, calls[c], "KeyError", "none", 0)
    /\ UNCHANGED <<view, limiter, objs, threads, delivered, pushed>>

\* ---------------------------------- get_frame, get_all_frames, stop_all
\* the keys of self.streams in the dict's iteration order, which is the
\* order of insertion; for add_stream calls made one after the other that
\* is the order in which the registered VideoStreams were constructed
RECURSIVE KeysSorted(_)
KeysSorted(S) ==
    IF S = {} THEN <<>>
    ELSE LET id == CHOOSE x \in S : \A y \in S : streams[x] <= streams[y]
         IN <<id>> \o KeysSorted(S \ {id})

\* a key list that stops after the first key
FirstRegisteredId ==
    IF DOMAIN streams = {} THEN <<>> ELSE <<Head(KeysSorted(DOMAIN streams))>>

\* `list(self.streams.keys())`, and the keys `self.streams.items()` yields
RegisteredIds == KeysSorted(DOMAIN streams)

\* get_frame, lines 204-205: `if stream_id not in self.streams: return None`
GetFrameCheck(c, stream_id) ==
    LET call == [Idle EXCEPT !.op = "get_frame", !.stream_id = stream_id] IN
    /\ calls[c].pc = "idle"
    /\ IF NotRegistered(stream_id)
       THEN Return(c, call, "None", "none", 0)
       ELSE Continue(c, [call EXCEPT !.pc = "gf_read"])
    /\ UNCHANGED <<view, limiter, streams, objs, threads, delivered, pushed>>

\* get_frame, line 207: `return self.streams[stream_id].read()`, up to the
\* empty() test of read()
GetFrameRead(c) ==
    LET id == calls[c].stream_id IN
    /\ calls[c].pc = "gf_read"
    /\ IF id \in DOMAIN streams
       THEN ReadEmpty(c, streams[id], calls[c])
       ELSE /\ Return(c, calls[c], "KeyError", "none", 0)
            /\ UNCHANGED <<view, limiter, streams, objs, threads, delivered, pushed>>

\* a filter that keeps the None of an empty buffer in the dict
KeepAnyFrame(frame) == TRUE

\* get_all_frames, line 214: `if frame is not None`
KeepFrame(frame) == frame # 0

\* get_all_frames, lines 211-212: `frames = {}` and the start of the
\* iteration over `self.streams.items()`
GetAllFramesBegin(c) ==
    /\ calls[c].pc = "idle"
    /\ Continue(c, [Idle EXCEPT !.op = "get_all_frames", !.pc = "ga_loop",
                                !.keys = RegisteredIds])
    /\ UNCHANGED <<view, limiter, streams, objs, threads, delivered, pushed>>

\* the dict `frames` after `if frame is not None: frames[stream_id] = frame`
WithFrame(frames, id, frame) ==
    IF KeepFrame(frame)
    THEN [x \in DOMAIN frames \cup {id} |-> IF x = id THEN frame ELSE frames[x]]
    ELSE frames

\* get_all_frames, lines 212-217: one turn of the loop, up to the empty()
\* test of `stream.read()`, or `return frames`, the dict the call holds at
\* that point
GetAllFramesNext(c) ==
    /\ calls[c].pc = "ga_loop"
    /\ IF calls[c].keys = <<>>
       THEN /\ Return(c, calls[c], "dict", "none", 0)
            /\ pushed' = pushed
       ELSE LET id == Head(calls[c].keys)
                o == streams[id]
            IN /\ pushed' = [pushed EXCEPT ![o] = <<>>]
               /\ IF QueueEmpty(objs[o].frame_queue)
                  THEN Continue(c, [calls[c] EXCEPT
                                       !.keys = Tail(@),
                                       !.frames = WithFrame(@, id, 0)])
                  ELSE Continue(c, [calls[c] EXCEPT !.pc = "ga_get", !.obj = o])
    /\ UNCHANGED <<view, limiter, streams, objs, threads, delivered>>

\* get_all_frames, lines 213-215: the get_nowait() of `stream.read()` and
\* `if frame is not None: frames[stream_id] = frame`
GetAllFramesGet(c) ==
    LET id == Head(calls[c].keys)
        o == calls[c].obj
        frame == ReadResult(objs[o].frame_queue)
    IN /\ calls[c].pc = "ga_get"
       /\ ReadEffect(o)
       /\ Continue(c, [calls[c] EXCEPT !.pc = "ga_loop", !.obj = 0,
                                       !.keys = Tail(@),
                                       !.frames = WithFrame(@, id, frame)])
       /\ UNCHANGED <<view, limiter, streams, threads, delivered>>

\* stop_all, line 221: `list(self.streams.keys())`
StopAllBegin(c) ==
    /\ calls[c].pc = "idle"
    /\ Continue(c, [Idle EXCEPT !.op = "stop_all", !.pc = "sa_loop",
                                !.keys = RegisteredIds])
    /\ UNCHANGED <<view, limiter, streams, objs, threads, delivered, pushed>>

\* stop_all, lines 221-224: one turn of the loop, up to the membership
\* check of `self.remove_stream(stream_id)`, or the return
StopAllNext(c) ==
    /\ calls[c].pc = "sa_loop"
    /\ IF calls[c].keys = <<>>
       THEN Return(c, calls[c], "None", "all_streams_stopped", 0)
       ELSE LET id == Head(calls[c].keys) IN
            IF NotRegistered(id)
            THEN Continue(c, [calls[c] EXCEPT !.keys = Tail(@)])
            ELSE IF id \in DOMAIN streams
                 THEN Continue(c, [calls[c] EXCEPT !.keys = Tail(@), !.stream_id = id,
                                                   !.obj = streams[id],
                                                   !.ret = "stop_all",
                                                   !.pc = "stop_flag"])
                 ELSE Return(c, calls[c], "KeyError", "none", 0)
    /\ UNCHANGED <<view, limiter, streams, objs, threads, delivered, pushed>>

\* the state after MultiCameraManager(max_streams)
Init ==
    /\ streams = <<>>
    /\ objs = <<>>
    /\ threads = EmptyBag
    /\ calls = [c \in Callers |-> Idle]
    /\ last = NoReturn
    /\ delivered = <<>>
    /\ pushed = <<>>
    /\ view = <<>>
    /\ limiter = <<>>

Next ==
    \/ \E c \in Callers, src \in Sources, id \in StreamIds : AddStreamCap(c, src, id)
    \/ \E c \in Callers : AddStreamDup(c)
    \/ \E c \in Callers : AddStreamStart(c)
    \/ \E c \in Callers : StartLaunch(c)
    \/ \E c \in Callers : AddStreamInsert(c)
    \/ \E c \in Callers, id \in StreamIds : RemoveStreamCheck(c, id)
    \/ \E c \in Callers : RemoveStreamStop(c)
    \/ \E c \in Callers : StopRelease(c)
    \/ \E c \in Callers : RemoveStreamDel(c)

\* The registry under concurrent add_stream and remove_stream calls.  The
\* capture threads that add_stream launches are not scheduled here: no
\* statement of add_stream or remove_stream reads what a capture thread
\* writes, and join(timeout=2) returns whether or not the thread has exited.
Spec == Init /\ [][Next]_vars

\* ------------------------------------- the manager used by one caller
\* the one thread that uses the manager, the ids it uses, and the number of
\* streams it adds
SeqCallers == {1}
SeqIds == {"cam1", "cam2"}
SeqObjects == max_streams

\* MultiCameraManager driven by one thread, call after call, while the
\* capture threads of its streams run
SeqNext ==
    \/ \E c \in SeqCallers, id \in SeqIds :
          Len(objs) < SeqObjects /\ AddStreamCap(c, "rtsp://a", id)
    \/ \E c \in SeqCallers : AddStreamDup(c)
    \/ \E c \in SeqCallers : AddStreamStart(c)
    \/ \E c \in SeqCallers : StartLaunch(c)
    \/ \E c \in SeqCallers : AddStreamInsert(c)
    \/ \E c \in SeqCallers, id \in SeqIds : RemoveStreamCheck(c, id)
    \/ \E c \in SeqCallers : RemoveStreamStop(c)
    \/ \E c \in SeqCallers : StopRelease(c)
    \/ \E c \in SeqCallers : RemoveStreamDel(c)
    \/ \E c \in SeqCallers, id \in SeqIds : GetFrameCheck(c, id)
    \/ \E c \in SeqCallers : GetFrameRead(c)
    \/ \E c \in SeqCallers : ReadGet(c)
    \/ \E c \in SeqCallers : GetAllFramesBegin(c)
    \/ \E c \in SeqCallers : GetAllFramesNext(c)
    \/ \E c \in SeqCallers : GetAllFramesGet(c)
    \/ \E r \in ThreadStates : LoopWhile(r)
    \/ \E r \in ThreadStates : LoopOpened(r)
    \/ \E r \in ThreadStates : LoopRead(r)
    \/ \E r \in ThreadStates : LoopFull(r)
    \/ \E r \in ThreadStates : LoopEvict(r)
    \/ \E r \in ThreadStates : LoopPut(r)
    \/ \E r \in ThreadStates : LoopCount(r)
    \/ \E r \in ThreadStates : LoopStore(r)

SeqSpec == Init /\ [][SeqNext]_vars

\* ------------------------------------------- the manager at shutdown
\* MultiCameraManager driven by one thread that adds and removes streams
\* and calls stop_all.  As in Spec, the capture threads are not scheduled:
\* stop() does not wait for them beyond its timed join.
ShutdownNext ==
    \/ \E c \in SeqCallers, src \in Sources, id \in StreamIds : AddStreamCap(c, src, id)
    \/ \E c \in SeqCallers : AddStreamDup(c)
    \/ \E c \in SeqCallers : AddStreamStart(c)
    \/ \E c \in SeqCallers : StartLaunch(c)
    \/ \E c \in SeqCallers : AddStreamInsert(c)
    \/ \E c \in SeqCallers, id \in StreamIds : RemoveStreamCheck(c, id)
    \/ \E c \in SeqCallers : RemoveStreamStop(c)
    \/ \E c \in SeqCallers : StopRelease(c)
    \/ \E c \in SeqCallers : RemoveStreamDel(c)
    \/ \E c \in SeqCallers : StopAllBegin(c)
    \/ \E c \in SeqCallers : StopAllNext(c)

ShutdownSpec == Init /\ [][ShutdownNext]_vars

\* ----------------------------------------- one VideoStream, used directly
\* the state after VideoStream("rtsp://a", "cam1"), not registered anywhere
StreamInit ==
    /\ streams = <<>>
    /\ objs = <<NewVideoStream("rtsp://a", "cam1")>>
    /\ threads = EmptyBag
    /\ calls = [c \in Callers |-> Idle]
    /\ last = NoReturn
    /\ delivered = <<0>>
    /\ pushed = << <<>> >>
    /\ view = <<>>
    /\ limiter = <<>>

\* the one thread that uses the VideoStream
StreamCallers == {1}

StreamNext ==
    \/ \E c \in StreamCallers, o \in ObjIds : VideoStreamStart(c, o)
    \/ \E c \in StreamCallers : StartLaunch(c)
    \/ \E c \in StreamCallers, o \in ObjIds : VideoStreamStop(c, o)
    \/ \E c \in StreamCallers : StopRelease(c)
    \/ \E c \in StreamCallers, o \in ObjIds : VideoStreamRead(c, o)
    \/ \E c \in StreamCallers : ReadGet(c)
    \/ \E r \in ThreadStates : LoopWhile(r)
    \/ \E r \in ThreadStates : LoopOpened(r)
    \/ \E r \in ThreadStates : LoopRead(r)
    \/ \E r \in ThreadStates : LoopFull(r)
    \/ \E r \in ThreadStates : LoopEvict(r)
    \/ \E r \in ThreadStates : LoopPut(r)
    \/ \E r \in ThreadStates : LoopCount(r)
    \/ \E r \in ThreadStates : LoopStore(r)

StreamSpec == StreamInit /\ [][StreamNext]_vars

\* The same, with the one progress guarantee stop() has: once the stop
\* signal is set, the timed join and the release complete.  The capture
\* threads get no fairness: a loop may sit in a source read for ever.
StreamFairSpec ==
    StreamSpec /\ \A c \in StreamCallers : WF_vars(StopRelease(c))

\* the states a capture thread of the one VideoStream can be in before it
\* returns
LoopStates ==
    {[obj |-> 1, pc |-> p, ret |-> "unset", frame |-> 0, cnt |-> 0] :
        p \in {"while", "opened", "read", "count"}}
    \cup {[obj |-> 1, pc |-> "while", ret |-> "fail", frame |-> 0, cnt |-> 0]}
    \cup {[obj |-> 1, pc |-> p, ret |-> "ok", frame |-> f, cnt |-> 0] :
            p \in {"full", "evict", "put"}, f \in 1..MaxFrames}
    \cup {[obj |-> 1, pc |-> "store", ret |-> "unset", frame |-> 0, cnt |-> n] :
            n \in 0..MaxFrames}

\* a step of a capture thread that is in state r
LoopStep(r) == BagIn(r, threads) /\ CaptureStep(r)

\* The one VideoStream with fair scheduling: every capture thread that can
\* take a step takes one in the end (a source read returns, with a frame
\* or without; a put waits while the queue is full), and a start(),
\* stop() or read() that has begun runs to its return.  Threads in the same
\* state are interchangeable, so fairness per state is fairness per thread.
StreamLiveSpec ==
    /\ StreamSpec
    /\ \A c \in StreamCallers : WF_vars(StopRelease(c)) /\ WF_vars(StartLaunch(c))
    /\ \A c \in StreamCallers : WF_vars(ReadGet(c))
    /\ \A r \in LoopStates : WF_vars(LoopStep(r))

\* ------------------------------- one registered stream, two callers
\* the id the two callers use
RaceIds == {"cam1"}

\* Two threads use the manager at once: one of them adds the stream, once,
\* and both remove it and read it with get_frame while its capture thread
\* runs.
RaceNext ==
    \/ \E c \in SeqCallers, id \in RaceIds :
          objs = <<>> /\ AddStreamCap(c, "rtsp://a", id)
    \/ \E c \in Callers : AddStreamDup(c)
    \/ \E c \in Callers : AddStreamStart(c)
    \/ \E c \in Callers : StartLaunch(c)
    \/ \E c \in Callers : AddStreamInsert(c)
    \/ \E c \in Callers, id \in RaceIds : RemoveStreamCheck(c, id)
    \/ \E c \in Callers : RemoveStreamStop(c)
    \/ \E c \in Callers : StopRelease(c)
    \/ \E c \in Callers : RemoveStreamDel(c)
    \/ \E c \in Callers, id \in RaceIds : GetFrameCheck(c, id)
    \/ \E c \in Callers : GetFrameRead(c)
    \/ \E c \in Callers : ReadGet(c)
    \/ \E r \in ThreadStates : LoopWhile(r)
    \/ \E r \in ThreadStates : LoopOpened(r)
    \/ \E r \in ThreadStates : LoopRead(r)
    \/ \E r \in ThreadStates : LoopFull(r)
    \/ \E r \in ThreadStates : LoopEvict(r)
    \/ \E r \in ThreadStates : LoopPut(r)
    \/ \E r \in ThreadStates : LoopCount(r)
    \/ \E r \in ThreadStates : LoopStore(r)

RaceSpec == Init /\ [][RaceNext]_vars

\* ------------------------------------------------------ create_multi_view
\* A source frame is its shape and a tag for its picture; the raster that
\* create_multi_view returns is its shape, what each grid cell's pixels hold
\* (Blank: zeros, else the resized frame pasted there) and, per cell, the ids
\* whose label has pixels in it.  Cells are numbered from 0, row by row.

\* the largest rows and cols of a grid_size
MaxGrid == 2
\* the most entries of a frames dict
MaxSources == 2

ViewIds == {"cam1", "cam2", "gate_north_entrance_camera_01"}
\* the number of characters of each id
IdChars == [cam1 |-> 4, cam2 |-> 4, gate_north_entrance_camera_01 |-> 29]
\* frames of 480 x 640 and of 1 x 640 (one scan line)
ViewFrames == {[height |-> 480, width |-> 640, px |-> 1],
               [height |-> 1, width |-> 640, px |-> 2]}

\* the dicts of n entries: the entries in insertion order, no key twice
ViewDicts(n) ==
    {d \in [1..n -> [id : ViewIds, frame : ViewFrames]] :
        \A i, j \in 1..n : i # j => d[i].id # d[j].id}

\* the arguments create_multi_view is called with
ViewInputs ==
    [frames : UNION {ViewDicts(n) : n \in 0..MaxSources},
     rows : 1..MaxGrid, cols : 1..MaxGrid]

\* line 248: the shape of the blank frame returned for an empty dict
FallbackHeight == 480
FallbackWidth == 640
\* lines 280: the offset of a label's origin (the left end of its baseline)
\* from the top-left corner of its cell
LabelOffsetX == 10
LabelOffsetY == 30
\* the extent of putText's text in FONT_HERSHEY_SIMPLEX at fontScale 0.7:
\* about 13 pixels a character, 15 pixels above the baseline
CharWidth == 13
TextHeight == 15
TextWidth(id) == IdChars[id] * CharWidth

Min(a, b) == IF a < b THEN a ELSE b
Max(a, b) == IF a > b THEN a ELSE b

\* a cell nothing has been pasted into: its pixels are as np.zeros made them
Blank == [src |-> [height |-> 0, width |-> 0, px |-> 0], height |-> 0, width |-> 0]

\* np.zeros((h, w, 3), dtype=np.uint8), seen as n cells
Zeros(h, w, n) ==
    [height |-> h, width |-> w,
     cells |-> [k \in 0..(n - 1) |-> Blank], ink |-> [k \in 0..(n - 1) |-> {}]]

\* a test for the empty dict that never finds it empty
FramesNeverEmpty(frames) == FALSE

\* line 247: `if not frames`
NoFrames(frames) == Len(frames) = 0

\* the keys in reverse order
StreamIdsReversed(frames) == [i \in 1..Len(frames) |-> frames[Len(frames) + 1 - i].id]

\* line 261: `stream_ids = list(frames.keys())`, the keys in insertion order
StreamIdList(frames) == [i \in 1..Len(frames) |-> frames[i].id]

\* line 266: `frames[stream_ids[idx]]`
FrameOf(frames, id) == (CHOOSE i \in 1..Len(frames) : frames[i].id = id)

\* line 267: cv2.resize(frame, (cell_width, cell_height)) raises cv2.error
\* for a target size with a zero side
ResizeFails(cell_width, cell_height) == cell_width = 0 \/ cell_height = 0

\* line 267: the resized frame
Resized(frame, cell_width, cell_height) ==
    [src |-> frame, height |-> cell_height, width |-> cell_width]

\* lines 277-285: whether the label of cell k, drawn by cv2.putText on the
\* whole grid, has pixels in cell j
InkReaches(k, j, id, cols, cell_width, cell_height) ==
    LET x0 == (k % cols) * cell_width + LabelOffsetX
        x1 == x0 + TextWidth(id)
        y1 == (k \div cols) * cell_height + LabelOffsetY
        y0 == y1 - TextHeight
        cx == (j % cols) * cell_width
        cy == (j \div cols) * cell_height
    IN /\ Max(x0, cx) < Min(x1, cx + cell_width)
       /\ Max(y0, cy) < Min(y1, cy + cell_height)

\* the number of the cell in row `row`, column `col` of a grid of `cols`
\* columns
CellAt(row, col, cols) == row * cols + col

\* lines 263-285, the turn of the loop for idx: paste the resized frame into
\* the cell of `row` and `col`, then draw the label
FillCell(grid, frames, idx, cols, cell_width, cell_height) ==
    LET row == idx \div cols
        col == idx % cols
        k == CellAt(row, col, cols)
        id == StreamIdList(frames)[idx + 1]
        frame == frames[FrameOf(frames, id)].frame
        pasted == [grid EXCEPT
                     !.cells[k] = Resized(frame, cell_width, cell_height),
                     !.ink[k] = {}]
    IN [pasted EXCEPT
          !.ink = [j \in DOMAIN pasted.ink |->
                     IF InkReaches(k, j, id, cols, cell_width, cell_height)
                     THEN pasted.ink[j] \cup {id} ELSE pasted.ink[j]]]

\* line 262: `for idx in range(min(len(frames), rows * cols))`, from idx on
RECURSIVE FillGrid(_, _, _, _, _, _, _)
FillGrid(grid, frames, idx, rows, cols, cell_width, cell_height) ==
    IF idx >= Min(Len(frames), rows * cols) THEN grid
    ELSE FillGrid(FillCell(grid, frames, idx, cols, cell_width, cell_height),
                  frames, idx + 1, rows, cols, cell_width, cell_height)

\* the outcome of a call: the frame returned, or the exception raised
Returned(frame) == [exc |-> "none", frame |-> frame]
Raised(exc) == [exc |-> exc, frame |-> Zeros(0, 0, 0)]
NotCalled == Raised("not called")

\* create_multi_view(frames, (rows, cols)): the raster returned, or the
\* exception raised; next(iter(...)) of an empty dict raises StopIteration
CreateMultiViewResult(frames, rows, cols) ==
    IF NoFrames(frames) THEN Returned(Zeros(FallbackHeight, FallbackWidth, 0))
    ELSE IF Len(frames) = 0 THEN Raised("StopIteration")
    ELSE LET first_frame == frames[1].frame
             cell_height == first_frame.height \div rows
             cell_width == first_frame.width \div cols
             grid == Zeros(cell_height * rows, cell_width * cols, rows * cols)
         IN IF ResizeFails(cell_width, cell_height) THEN Raised("cv2.error")
            ELSE Returned(FillGrid(grid, frames, 0, rows, cols,
                                   cell_width, cell_height))

\* a caller about to call create_multi_view with the arguments `input`
NewView(input) ==
    [frames |-> input.frames, rows |-> input.rows, cols |-> input.cols,
     pc |-> "call", grid |-> NotCalled, prev |-> NotCalled, again |-> FALSE]

\* `grid = create_multi_view(frames, (rows, cols))`
CreateMultiView ==
    /\ view.pc = "call"
    /\ view' = [view EXCEPT !.pc = "returned",
                            !.grid = CreateMultiViewResult(view.frames, view.rows, view.cols),
                            !.prev = view.grid]
    /\ UNCHANGED <<streams, objs, threads, calls, last, delivered, pushed, limiter>>

\* the caller makes the same call once more, keeping the first result
CreateMultiViewAgain ==
    /\ view.pc = "returned" /\ ~view.again
    /\ view' = [view EXCEPT !.pc = "call", !.again = TRUE]
    /\ UNCHANGED <<streams, objs, threads, calls, last, delivered, pushed, limiter>>

ViewInit ==
    /\ streams = <<>>
    /\ objs = <<>>
    /\ threads = EmptyBag
    /\ calls = [c \in Callers |-> Idle]
    /\ last = NoReturn
    /\ delivered = <<>>
    /\ pushed = <<>>
    /\ view \in {NewView(input) : input \in ViewInputs}
    /\ limiter = <<>>

ViewNext == CreateMultiView \/ CreateMultiViewAgain

\* create_multi_view called twice on each input
ViewSpec == ViewInit /\ [][ViewNext]_vars

\* ------------------------------------------- core/rate_limiter.py
\* RateLimiter(max_per_minute, max_per_hour, max_per_day), scaled down from
\* the defaults 60, 1000 and 10000
max_per_minute == 1
max_per_hour == 2
max_per_day == 3
\* check_limit calls in one run
MaxCalls == 5

\* the window lengths check_limit passes to _clean_old_requests, in seconds
MinuteWindow == 60
HourWindow == 3600
DayWindow == 86400

\* the user ids the middleware passes: the client hosts
LimiterUsers == {"10.0.0.1", "10.0.0.2"}
\* the times, in seconds, that pass between two check_limit calls
Jumps == {59, 60, 3600, 86400}
\* the times that pass inside one call, between its time.time() of line 59
\* and those of _clean_old_requests
Lags == {0, 1}

\* the state after RateLimiter(...): the three defaultdict(list), read as a
\* list per user that is empty until written; `admitted` is the history of
\* the time stamps recorded with admitted requests, which the program does
\* not keep
NewLimiter ==
    [minute_requests |-> [u \in LimiterUsers |-> <<>>],
     hour_requests |-> [u \in LimiterUsers |-> <<>>],
     day_requests |-> [u \in LimiterUsers |-> <<>>],
     clock |-> 0, ticked |-> FALSE, calls |-> 0,
     admitted |-> [u \in LimiterUsers |-> <<>>],
     result |-> [user_id |-> "none", allowed |-> FALSE, resource |-> "none"]]

\* _clean_old_requests(requests, window_seconds) when time.time() is `now`
CleanOldRequests(requests, window_seconds, now) ==
    LET cutoff == now - window_seconds
        Recent(req) == req > cutoff
    IN SelectSeq(requests, Recent)

\* a limit test that lets one request too many through
OverLimit(requests, max) == Len(requests) > max

\* `len(requests) >= max`, lines 73, 87 and 98
LimitReached(requests, max) == Len(requests) >= max

\* check_limit(user_id); `lag` is the time that passes between the
\* time.time() of line 59 and the cleaning
CheckLimit(user_id, lag) ==
    LET current_time == limiter.clock
        now == limiter.clock + lag
        minute == CleanOldRequests(limiter.minute_requests[user_id], MinuteWindow, now)
        hour == CleanOldRequests(limiter.hour_requests[user_id], HourWindow, now)
        day == CleanOldRequests(limiter.day_requests[user_id], DayWindow, now)
        resource == IF LimitReached(minute, max_per_minute) THEN "per_minute_limit"
                    ELSE IF LimitReached(hour, max_per_hour) THEN "per_hour_limit"
                    ELSE IF LimitReached(day, max_per_day) THEN "per_day_limit"
                    ELSE "none"
        allowed == resource = "none"
        Recorded(requests) == IF allowed THEN Append(requests, current_time)
                              ELSE requests
    IN /\ limiter.calls < MaxCalls
       /\ limiter' = [limiter EXCEPT
             !.minute_requests[user_id] = Recorded(minute),
             !.hour_requests[user_id] = Recorded(hour),
             !.day_requests[user_id] = Recorded(day),
             !.admitted[user_id] = Recorded(@),
             !.clock = now, !.ticked = FALSE, !.calls = @ + 1,
             !.result = [user_id |-> user_id, allowed |-> allowed,
                         resource |-> resource]]
       /\ UNCHANGED <<streams, objs, threads, calls, last, delivered, pushed, view>>

\* time passes between two calls
Tick(d) ==
    /\ ~limiter.ticked /\ limiter.calls < MaxCalls
    /\ limiter' = [limiter EXCEPT !.clock = @ + d, !.ticked = TRUE]
    /\ UNCHANGED <<streams, objs, threads, calls, last, delivered, pushed, view>>

LimiterInit ==
    /\ streams = <<>>
    /\ objs = <<>>
    /\ threads = EmptyBag
    /\ calls = [c \in Callers |-> Idle]
    /\ last = NoReturn
    /\ delivered = <<>>
    /\ pushed = <<>>
    /\ view = <<>>
    /\ limiter = NewLimiter

LimiterNext ==
    \/ \E user_id \in LimiterUsers, lag \in Lags : CheckLimit(user_id, lag)
    \/ \E d \in Jumps : Tick(d)

\* the rate limiter under a sequence of check_limit calls, as the
\* middleware makes them, one request after the other
LimiterSpec == LimiterInit /\ [][LimiterNext]_vars

\* ================================================================ claims
LastOf(q) == q[Len(q)]

\* the last n elements of sequence q
Newest(q, n) == SubSeq(q, Len(q) - n + 1, Len(q))

\* C1: in every reachable state of a stream, whatever the interleaving of
\* the capture loop's pushes with read() calls, frame_queue holds at most
\* buffer_size frames.
C1_BufferWithinCapacity ==
    \A o \in ObjIds : Len(objs[o].frame_queue) <= buffer_size

\* the loop has found the buffer full and is about to evict, with a further
\* frame in hand, and a read() that returned a frame has slipped in between
C1_Witness ==
    \E r \in ThreadStates :
        /\ r.pc = "evict" /\ r.frame > buffer_size
        /\ Len(objs[r.obj].frame_queue) = buffer_size - 1
        /\ last.op = "read" /\ last.result = "frame"

\* C2 (as claimed): read() returns the most recently pushed frame and
\* discards the older ones, so that a second read() with no push in between
\* returns None.
C2_ReadReturnsLatest ==
    [][\A c \in Callers, o \in ObjIds :
          (ReadGet(c) /\ calls[c].obj = o /\ objs[o].frame_queue # <<>>)
              => /\ last'.frame = LastOf(objs[o].frame_queue)
                 /\ objs'[o].frame_queue = <<>>]_vars

\* C3: with one capture loop and no read() in between, once more than
\* buffer_size frames have been pushed the buffer holds exactly the
\* buffer_size most recently pushed frames, oldest first in capture order:
\* each push beyond the capacity has evicted the single oldest frame.
C3_DropOldest ==
    \A o \in ObjIds :
        (/\ NumThreads(o) = 1
         /\ \A r \in ThreadStates : r.obj = o => r.pc # "put"
         /\ Len(pushed[o]) > buffer_size)
            => LET q == objs[o].frame_queue IN
               /\ q = Newest(pushed[o], buffer_size)
               /\ \A i \in 1..(Len(q) - 1) : q[i + 1] = q[i] + 1

\* the loop has pushed more than buffer_size frames, none read since, and
\* is back at its loop test
C3_Witness ==
    \E o \in ObjIds :
        /\ NumThreads(o) = 1
        /\ \A r \in ThreadStates : r.obj = o => r.pc = "while"
        /\ Len(pushed[o]) > buffer_size
        /\ Len(objs[o].frame_queue) = buffer_size

\* C4 (as claimed): the registry never holds more than max_streams streams,
\* also when add_stream calls of different callers interleave.
C4_RegistryWithinMax == NumStreams <= max_streams

\* C5: add_stream called on a registry that holds max_streams streams (or
\* more) returns False and changes nothing; a remove_stream that finds its id
\* takes exactly one stream out; and an add_stream call that finds room, an
\* unused id and an openable source is not refused: it returns False only
\* from the capacity check on a full registry, from the duplicate check on a
\* registered id, or from a failed start().
C5_CapacityGate ==
    [][\A c \in Callers :
          /\ \A src \in Sources, id \in StreamIds :
                AddStreamCap(c, src, id)
                    => IF NumStreams >= max_streams
                       THEN /\ calls'[c] = Idle
                            /\ last'.result = "False"
                            /\ streams' = streams /\ objs' = objs /\ threads' = threads
                       ELSE calls'[c].pc = "add_dup"
          /\ (RemoveStreamDel(c) /\ calls[c].stream_id \in DOMAIN streams)
                => /\ last'.result = "True"
                   /\ DOMAIN streams' = DOMAIN streams \ {calls[c].stream_id}
          /\ (/\ calls[c].op = "add_stream"
              /\ calls'[c] = Idle
              /\ last'.result = "False")
                => \/ /\ calls[c].pc = "add_dup"
                      /\ calls[c].stream_id \in DOMAIN streams
                   \/ /\ calls[c].pc = "start_open"
                      /\ objs'[calls[c].obj].stream = "failed"
          /\ AddStreamInsert(c)
                => /\ last'.result = "True"
                   /\ calls[c].stream_id \in DOMAIN streams']_vars

\* max_streams + 1 streams with different ids were started, one has
\* been removed since, and the add_stream that returned last succeeded and
\* filled the registry again
C5_Witness ==
    /\ last.op = "add_stream" /\ last.result = "True"
    /\ NumStreams = max_streams
    /\ Len(objs) = max_streams + 1
    /\ \A c \in Callers : calls[c] = Idle
    /\ \A o \in ObjIds : objs[o].thread # "None"
    /\ \A o1, o2 \in ObjIds : objs[o1].stream_id = objs[o2].stream_id => o1 = o2

\* C6: add_stream that finds its id registered returns False, constructs and
\* starts nothing, and leaves the registry entry what it was: the original
\* instance with its original source.
C6_DuplicateRejected ==
    [][\A c \in Callers :
          (AddStreamDup(c) /\ calls[c].stream_id \in DOMAIN streams)
              => /\ calls'[c] = Idle
                 /\ last'.result = "False"
                 /\ streams' = streams
                 /\ objs' = objs
                 /\ threads' = threads]_vars

\* a duplicate add_stream has just been refused and its id is registered
C6_Witness ==
    /\ last.op = "add_stream" /\ last.event = "stream_already_exists"
    /\ last.result = "False"
    /\ NumStreams >= 1
    /\ \A id \in DOMAIN streams : objs[streams[id]].stream_id = id

\* C7: the registry changes an entry only in add_stream's insert, which is
\* reached only with a stream whose start() has opened the source and
\* launched the thread; when start() fails add_stream returns False and the
\* registry is left as it was.
C7_RegisterAfterStart ==
    [][/\ \A id \in DOMAIN streams' :
             (id \notin DOMAIN streams \/ streams'[id] # streams[id])
                 => \E c \in Callers :
                       /\ AddStreamInsert(c)
                       /\ calls[c].stream_id = id
                       /\ streams'[id] = calls[c].obj
                       /\ objs[calls[c].obj].stream = "opened"
                       /\ objs[calls[c].obj].thread # "None"
       /\ \A c \in Callers :
             (AddStreamStart(c) /\ objs'[calls[c].obj].stream = "failed")
                 => /\ calls'[c] = Idle
                    /\ last'.result = "False"
                    /\ streams' = streams]_vars

\* an add_stream has just failed in start(), and its stream is not registered
C7_Witness ==
    /\ last.op = "add_stream" /\ last.event = "stream_open_failed"
    /\ last.result = "False"
    /\ \E o \in ObjIds :
          /\ objs[o].stream = "failed"
          /\ \A id \in DOMAIN streams : streams[id] # o

\* C8 (as claimed): at most one capture loop is active per VideoStream,
\* whatever the sequence of start() and stop() calls.
C8_OneCaptureLoop ==
    \A o \in ObjIds : NumLive(o) <= 1

\* C9 (as claimed): is_active (not stopped) is true exactly when a capture
\* loop of the stream is scheduled.
C9_ActiveIffLoop ==
    \A o \in ObjIds : IsActive(o) <=> (NumLive(o) > 0)

\* the capture thread in state r takes a step that ends its loop
LoopExits(r) == CaptureStep(r) /\ NumLive(r.obj)' < NumLive(r.obj)

\* C10 (as claimed): a failed read sends the capture loop back to its loop
\* test, and the loop exits only with the stop signal set.
C10_ExitOnlyOnStop ==
    [][\A r \in ThreadStates :
          /\ (LoopRead(r) /\ delivered' = delivered) => ~LoopExits(r)
          /\ LoopExits(r) => objs[r.obj].stopped]_vars

\* C11 (as claimed): the put that follows the drop-oldest step always finds
\* room in the buffer, whatever the start()/stop() calls and reads.
C11_PushNeverBlocks ==
    \A r \in ThreadStates :
        r.pc = "put" => PutCanProceed(objs[r.obj].frame_queue)

\* C12: a stop() that has set the stop signal returns, whatever the capture
\* loops do or fail to do, and at its return the stop signal is set and the
\* source handle, if there ever was one, has been released.
C12_StopReturns ==
    /\ [][\A c \in StreamCallers :
             StopRelease(c)
                 => /\ calls'[c] = Idle
                    /\ last'.op = "stop" /\ last'.result = "None"
                    /\ objs'[calls[c].obj].stopped
                    /\ objs'[calls[c].obj].stream \in {"None", "released"}]_vars
    /\ \A c \in StreamCallers :
          (calls[c].pc = "stop_join") ~> (calls[c].pc = "idle" /\ last.op = "stop")

\* stop() has returned on a started stream whose loop has not left its
\* source read
C12_Witness ==
    /\ last.op = "stop" /\ calls[1] = Idle
    /\ objs[1].stopped /\ objs[1].stream = "released"
    /\ \E r \in ThreadStates : r.obj = 1 /\ r.pc = "read"

\* what a stop() called right after a stop() of the same stream does, step
\* by step: it raises nothing and changes neither the stream nor the threads
SecondStopChangesNothing ==
    \A c \in StreamCallers :
        /\ \A o \in ObjIds :
              (VideoStreamStop(c, o) /\ last.op = "stop")
                  => objs' = objs /\ threads' = threads
        /\ (StopRelease(c) /\ last.op = "stop")
              => /\ objs' = objs /\ threads' = threads
                 /\ calls'[c] = Idle /\ last'.result = "None"
                 /\ objs'[calls[c].obj].stopped
                 /\ objs'[calls[c].obj].stream \in {"None", "released"}

\* C13 (as claimed): a second stop() raises no error and leaves the stream
\* as a single stop() does: stop signal set, no loop, handle released.
C13_StopTwiceNoLoop ==
    [][/\ SecondStopChangesNothing
       /\ \A c \in StreamCallers, o \in ObjIds :
             (StopRelease(c) /\ last.op = "stop" /\ calls[c].obj = o)
                 => NumLive(o)' = 0]_vars

\* C13 (amended): a second stop(), or a stop() of a stream that was never
\* started, raises no error and leaves the stream as the stop() before it
\* left it: stop signal set, handle released (None when there never was
\* one); a loop that outlived the first stop()'s join may still be there.
C13_StopIdempotent ==
    [][/\ SecondStopChangesNothing
       /\ \A c \in StreamCallers :
             (StopRelease(c) /\ objs[calls[c].obj].stream = "None")
                 => /\ calls'[c] = Idle /\ last'.result = "None"
                    /\ objs'[calls[c].obj].stopped
                    /\ objs'[calls[c].obj].stream = "None"]_vars

\* a second stop() in a row is waiting in its join, on a stream that was
\* started and stopped, whose loop has not yet seen the stop signal
C13_Witness ==
    /\ calls[1].op = "stop" /\ calls[1].pc = "stop_join"
    /\ last.op = "stop"
    /\ objs[1].stopped /\ objs[1].stream = "released"
    /\ NumLive(1) > 0

\* C14: remove_stream of a registered id stops the stream, releases its
\* handle and takes the id out of the registry; remove_stream of an id that
\* is not (or no longer) registered returns False, raises nothing, and
\* changes neither the registry nor any stream nor any thread.
C14_SecondRemoveNotFound ==
    [][\A c \in Callers :
          /\ \A id \in StreamIds :
                (RemoveStreamCheck(c, id) /\ id \notin DOMAIN streams)
                    => /\ calls'[c] = Idle
                       /\ last'.op = "remove_stream" /\ last'.result = "False"
                       /\ streams' = streams /\ objs' = objs /\ threads' = threads
          /\ (RemoveStreamDel(c) /\ last'.result = "True")
                => /\ calls[c].stream_id \notin DOMAIN streams'
                   /\ objs[calls[c].obj].stopped
                   /\ objs[calls[c].obj].stream = "released"]_vars

\* every id has been registered and removed, the registry is empty, and a
\* further remove_stream has just reported not-found
C14_Witness ==
    /\ last.op = "remove_stream" /\ last.result = "False"
    /\ NumStreams = 0
    /\ \A c \in Callers : calls[c] = Idle
    /\ \A id \in StreamIds :
          \E o \in ObjIds : /\ objs[o].stream_id = id
                            /\ objs[o].stopped /\ objs[o].stream = "released"

\* C15 (as claimed): no interleaving of remove_stream(id) with another
\* remove_stream(id) (or with get_frame, get_all_frames) makes a call raise.
C15_ConcurrentRemoveSafe == last.result # "KeyError"

\* C20 (as claimed): a failed add_stream returns its reason, one of three
\* values the caller can tell apart.
C20_FailureReasonReturned ==
    (last.op = "add_stream" /\ last.result # "True")
        => \/ last.event = "max_streams_reached" /\ last.result = "CapacityExceeded"
           \/ last.event = "stream_already_exists" /\ last.result = "DuplicateId"
           \/ last.event = "stream_open_failed" /\ last.result = "SourceUnavailable"

\* the capture thread in state r takes a step
ThreadMoves(r) == calls' = calls /\ CopiesIn(r, threads') < CopiesIn(r, threads)

\* caller c takes a step of its call
CallerMoves(c) == calls'[c] # calls[c] \/ last' # last

\* C16: when stop_all returns the registry is empty and every stream that
\* was ever started has its stop signal set and its handle released; on an
\* empty registry stop_all returns None and changes nothing.
C16_StopAllEmptiesRegistry ==
    [][\A c \in SeqCallers :
          /\ StopAllBegin(c)
                => /\ Len(calls'[c].keys) = NumStreams
                   /\ \A id \in DOMAIN streams :
                         \E i \in 1..NumStreams : calls'[c].keys[i] = id
                   /\ streams' = streams /\ objs' = objs /\ threads' = threads
          /\ (StopAllNext(c) /\ calls'[c] = Idle)
                => /\ last'.op = "stop_all" /\ last'.result = "None"
                   /\ DOMAIN streams' = {}
                   /\ streams' = streams /\ objs' = objs /\ threads' = threads
                   /\ \A o \in ObjIds :
                         objs'[o].thread # "None"
                             => objs'[o].stopped /\ objs'[o].stream = "released"]_vars

\* stop_all, called on a registry of max_streams streams, has stopped and
\* removed all but the last of them
C16_Witness ==
    /\ calls[1].op = "stop_all" /\ calls[1].pc = "sa_loop"
    /\ Len(calls[1].keys) = 1
    /\ NumStreams = 1
    /\ Len(objs) = max_streams
    /\ \A o \in ObjIds :
          (\A id \in DOMAIN streams : streams[id] # o)
              => objs[o].stopped /\ objs[o].stream = "released"
    /\ \E o \in ObjIds : \A id \in DOMAIN streams : streams[id] # o

\* C17: get_all_frames visits the registered streams, each once; it puts
\* the head of a stream's buffer into its dict when its read() finds a
\* frame there and puts nothing for a stream whose buffer is empty, leaves
\* the other entries alone, waits for nothing, and returns the dict.
C17_SnapshotOmitsEmpty ==
    [][\A c \in SeqCallers :
          /\ GetAllFramesBegin(c)
                => /\ calls'[c].frames = <<>>
                   /\ Len(calls'[c].keys) = NumStreams
                   /\ \A id \in DOMAIN streams :
                         \E i \in 1..NumStreams : calls'[c].keys[i] = id
          /\ (calls[c].pc \in {"ga_loop", "ga_get"} /\ calls[c].keys # <<>>
                  /\ CallerMoves(c))
                => LET id == Head(calls[c].keys)
                       q == objs[streams[id]].frame_queue
                       before == calls[c].frames
                       after == calls'[c].frames
                   IN /\ id \notin DOMAIN before
                      /\ \A x \in DOMAIN before :
                            x \in DOMAIN after /\ after[x] = before[x]
                      /\ DOMAIN after \subseteq DOMAIN before \cup {id}
                      /\ IF q = <<>>
                         THEN /\ id \notin DOMAIN after
                              /\ calls'[c].keys = Tail(calls[c].keys)
                              /\ calls'[c].pc = "ga_loop"
                         ELSE IF calls[c].pc = "ga_loop"
                              THEN after = before /\ calls'[c].pc = "ga_get"
                              ELSE /\ id \in DOMAIN after /\ after[id] = Head(q)
                                   /\ calls'[c].keys = Tail(calls[c].keys)
                                   /\ calls'[c].pc = "ga_loop"
          /\ (calls[c].pc = "ga_loop" /\ calls[c].keys = <<>> /\ CallerMoves(c))
                => /\ calls'[c] = Idle
                   /\ last'.op = "get_all_frames" /\ last'.result = "dict"]_vars

\* get_all_frames has read all of max_streams registered streams and is
\* about to return a dict with an entry for one and none for another
C17_Witness ==
    /\ calls[1].op = "get_all_frames" /\ calls[1].keys = <<>>
    /\ NumStreams = max_streams
    /\ Cardinality(DOMAIN calls[1].frames) = 1

\* C18 (as claimed): after N > buffer_size pushes by the one capture loop
\* and no read, the statistics report frames_processed = N and
\* dropped_frames = N - buffer_size.
C18_DroppedAndProcessed ==
    \A o \in ObjIds :
        (/\ NumThreads(o) = 1
         /\ \A r \in ThreadStates : r.obj = o => r.pc = "while"
         /\ Len(pushed[o]) = delivered[o]
         /\ Len(pushed[o]) > buffer_size)
            => /\ GetStats(o).frames_processed = Len(pushed[o])
               /\ "dropped_frames" \in DOMAIN GetStats(o)
               /\ GetStats(o).dropped_frames = Len(pushed[o]) - buffer_size

\* the objects a step leaves as they were: all but o
OthersUnchanged(o) ==
    \A o2 \in ObjIds \ {o} : objs'[o2] = objs[o2] /\ delivered'[o2] = delivered[o2]

\* the registry entries a step leaves as they were: all but the one of id
RegistryOthersUnchanged(id) ==
    \A x \in StreamIds \ {id} :
        /\ x \in DOMAIN streams <=> x \in DOMAIN streams'
        /\ x \in DOMAIN streams => streams'[x] = streams[x]

\* C19: a step of the capture loop of one stream, and a step of add_stream,
\* remove_stream or get_frame for one id, leaves every other stream's
\* buffer, frame counter, flags and handle and every other registry entry
\* unchanged, and get_frame returns the head of its own stream's buffer
\* whatever state the other streams are in.
C19_StreamsIndependent ==
    [][/\ \A r \in ThreadStates :
             ThreadMoves(r) => (OthersUnchanged(r.obj) /\ streams' = streams)
       /\ \A c \in SeqCallers :
             /\ (calls[c].pc = "idle" /\ CallerMoves(c))
                   => (objs' = objs /\ streams' = streams)
             /\ (calls[c].op \in {"add_stream", "remove_stream"} /\ CallerMoves(c))
                   => /\ OthersUnchanged(calls[c].obj)
                      /\ RegistryOthersUnchanged(calls[c].stream_id)
             /\ (calls[c].op = "get_frame" /\ CallerMoves(c))
                   => /\ calls[c].stream_id \in DOMAIN streams
                      /\ OthersUnchanged(streams[calls[c].stream_id])
                      /\ streams' = streams
                      /\ calls[c].pc = "read_get"
                            => /\ calls'[c] = Idle
                               /\ last'.frame =
                                     ReadResult(objs[calls[c].obj].frame_queue)]_vars

\* one of two registered streams has just been removed, and the other is
\* registered and running with frames in its buffer
C19_Witness ==
    /\ last.op = "remove_stream" /\ last.result = "True"
    /\ NumStreams = 1
    /\ \E id \in DOMAIN streams :
          /\ objs[streams[id]].frame_queue # <<>>
          /\ objs[streams[id]].frame_count > 0
          /\ ~objs[streams[id]].stopped
          /\ NumLive(streams[id]) = 1

\* the cells of raster g
Cells(g) == DOMAIN g.cells

\* every pixel of raster g is zero
AllZero(g) == \A k \in Cells(g) : g.cells[k] = Blank /\ g.ink[k] = {}

\* C21: create_multi_view with an empty frames dict returns, for every
\* grid shape and without raising, an all-zero frame 480 high and 640 wide.
C21_EmptyGivesFallback ==
    (view.pc = "returned" /\ view.frames = <<>>)
        => /\ view.grid.exc = "none"
           /\ view.grid.frame.height = 480 /\ view.grid.frame.width = 640
           /\ AllZero(view.grid.frame)

\* the call with an empty dict and the largest grid has returned
C21_Witness ==
    /\ view.pc = "returned" /\ view.frames = <<>>
    /\ view.rows = MaxGrid /\ view.cols = MaxGrid
    /\ view.grid = Returned(Zeros(FallbackHeight, FallbackWidth, 0))

\* the number of sources create_multi_view places
Placed(frames, rows, cols) == Min(Len(frames), rows * cols)

C23_CellsBeyondSourcesBlank ==
    (view.pc = "returned" /\ view.grid.exc = "none" /\ view.frames # <<>>)
        => LET g == view.grid.frame
               n == Placed(view.frames, view.rows, view.cols)
           IN /\ Cardinality(Cells(g)) = view.rows * view.cols
              /\ n <= view.rows * view.cols
              /\ \A k \in 0..(n - 1) :
                    g.cells[CellAt(k \div view.cols, k % view.cols, view.cols)].src
                        = view.frames[k + 1].frame
              /\ \A k \in Cells(g) :
                    k >= Len(view.frames) => (g.cells[k] = Blank /\ g.ink[k] = {})

\* C24 (as claimed): for a non-empty dict whose first frame is H high and
\* W wide, and any rows, cols >= 1, create_multi_view returns a frame
\* (H // rows) * rows high and (W // cols) * cols wide in which every cell
\* is H // rows by W // cols.
C24_GridShape ==
    (view.pc = "returned" /\ view.frames # <<>>)
        => LET H == view.frames[1].frame.height
               W == view.frames[1].frame.width
               g == view.grid.frame
           IN /\ view.grid.exc = "none"
              /\ g.height = (H \div view.rows) * view.rows
              /\ g.width = (W \div view.cols) * view.cols
              /\ \A k \in 0..(Placed(view.frames, view.rows, view.cols) - 1) :
                    /\ g.cells[k].height = H \div view.rows
                    /\ g.cells[k].width = W \div view.cols

\* the callers whose remove_stream(id) has begun the stop() of the stream:
\* the stop signal is set, the `del` not yet done
Stopping(id) ==
    {c \in Callers : /\ calls[c].op = "remove_stream" /\ calls[c].stream_id = id
                     /\ calls[c].pc \in {"stop_join", "rm_del"}}

\* C25 (as claimed): remove_stream takes the stream out of the registry
\* before it calls stop() on it, so that a get_frame(id) that begins once
\* the stop has started finds no stream and obtains no frame.
C25_RemovedBeforeStop ==
    /\ [](\A id \in StreamIds : Stopping(id) # {} => id \notin DOMAIN streams)
    /\ [][\A c \in Callers, id \in StreamIds :
             (/\ Stopping(id) # {}
              /\ calls[c].pc = "idle"
              /\ calls'[c].op = "get_frame" \/ last'.op = "get_frame"
              /\ CallerMoves(c))
                => (calls'[c] = Idle /\ last'.result = "None")]_vars

\* C26: a start() that cannot open the source of a stream no loop was ever
\* launched for returns False at once and leaves the stream as it was
\* created: no capture thread exists for it, its thread attribute is None,
\* it holds no open handle, and its buffer, frame counter, stop flag and
\* its source's position are unchanged.
C26_FailedStartStaysCreated ==
    [][\A c \in StreamCallers, o \in ObjIds :
          (/\ VideoStreamStart(c, o)
           /\ objs[o].thread = "None"
           /\ objs'[o].stream # "opened")
              => /\ calls'[c] = Idle
                 /\ last'.op = "start" /\ last'.result = "False"
                 /\ threads' = threads /\ NumThreads(o) = 0
                 /\ objs'[o] = [objs[o] EXCEPT !.stream = "failed"]
                 /\ delivered' = delivered]_vars

\* start() has failed on the stream as created and returned False: the
\* stream has no thread, a handle that is not open, and an empty buffer
C26_Witness ==
    /\ last.op = "start" /\ last.result = "False"
    /\ last.event = "stream_open_failed"
    /\ objs[1].thread = "None" /\ objs[1].stream = "failed"
    /\ objs[1].frame_queue = <<>> /\ objs[1].frame_count = 0
    /\ threads = EmptyBag
    /\ \A c \in Callers : calls[c] = Idle

\* the capture threads of VideoStream o that have returned
NumDone(o) == NumThreads(o) - NumLive(o)

\* every capture thread is in one of LoopStates, or has returned
LoopStatesCoverAll ==
    \A r \in ThreadStates : r.pc # "done" => r \in LoopStates

\* C27 (as claimed): once stop() has set the stop signal of a stream, every
\* capture loop launched for it before that call exits in the end, whatever
\* is done with the stream afterwards: if k loops had been launched, at
\* least k loops of the stream have returned at some later time.
C27_LoopsExitAfterStop ==
    \A k \in 1..MaxThreads :
        (\E c \in StreamCallers :
            calls[c].pc = "stop_join" /\ calls[c].obj = 1 /\ NumThreads(1) = k)
          ~> (NumDone(1) >= k)

\* C28 (as claimed): the read() calls on a stream return frames in
\* strictly increasing capture order, under any interleaving with the
\* capture of the stream.  When a read() returns frame f, f is later than
\* the frame the read before it returned, and every frame a later read()
\* can return is later than f: the frames still queued, in queue order, the
\* frames the capture has in hand, and the frames the source has yet to
\* deliver.
C28_ReadsInCaptureOrder ==
    [][\A c \in StreamCallers, o \in ObjIds :
          (/\ ReadGet(c) /\ calls[c].obj = o
           /\ last'.frame # 0)
              => LET f == last'.frame
                     q == objs'[o].frame_queue
                 IN /\ (last.op = "read" /\ last.frame # 0) => f > last.frame
                    /\ \A i \in 1..Len(q) : q[i] > f
                    /\ \A i, j \in 1..Len(q) : i < j => q[i] < q[j]
                    /\ \A r \in ThreadStates :
                          (r.obj = o /\ r.frame # 0) => r.frame > f
                    /\ delivered[o] >= f]_vars

\* the registered ids under which VideoStream o can be reached
IdsOf(o) == {id \in DOMAIN streams : streams[id] = o}

\* C29 (as claimed): whenever no add_stream, remove_stream or stop_all call
\* is in progress, every stream that has a capture loop and whose stop
\* signal is not set is in the registry, so that it can still be stopped
\* through it.
C29_RunningLoopsRegistered ==
    (\A c \in Callers : calls[c] = Idle)
        => \A o \in ObjIds :
              (NumThreads(o) > 0 /\ ~objs[o].stopped) => IdsOf(o) # {}

\* the number of requests in `requests` later than `now - window_seconds`
InWindow(requests, window_seconds, now) ==
    Cardinality({i \in 1..Len(requests) : requests[i] > now - window_seconds})

\* the requests of `after` are requests of `before`, and no more of them
NothingRecorded(before, after) ==
    /\ Len(after) <= Len(before)
    /\ \A i \in 1..Len(after) : \E j \in 1..Len(before) : after[i] = before[j]

\* C30: at every time the requests admitted to one user within the last
\* 60 s, 3600 s and 86400 s are at most max_per_minute, max_per_hour and
\* max_per_day; check_limit admits a request only when the user's admitted
\* requests within each window were below the limit, and then records it
\* once; a rejected call records nothing; and a call leaves the lists and
\* the admitted requests of every other user as they were.
C30_WindowLimitsHold ==
    /\ [](\A u \in LimiterUsers :
            /\ InWindow(limiter.admitted[u], MinuteWindow, limiter.clock) <= max_per_minute
            /\ InWindow(limiter.admitted[u], HourWindow, limiter.clock) <= max_per_hour
            /\ InWindow(limiter.admitted[u], DayWindow, limiter.clock) <= max_per_day)
    /\ [][\A u \in LimiterUsers :
             (limiter'.calls # limiter.calls /\ limiter'.result.user_id = u)
                => /\ limiter'.result.allowed
                      => /\ InWindow(limiter.admitted[u], MinuteWindow, limiter'.clock)
                              < max_per_minute
                         /\ InWindow(limiter.admitted[u], HourWindow, limiter'.clock)
                              < max_per_hour
                         /\ InWindow(limiter.admitted[u], DayWindow, limiter'.clock)
                              < max_per_day
                         /\ limiter'.admitted[u] = Append(limiter.admitted[u], limiter.clock)
                   /\ ~limiter'.result.allowed
                      => /\ limiter'.admitted[u] = limiter.admitted[u]
                         /\ NothingRecorded(limiter.minute_requests[u],
                                            limiter'.minute_requests[u])
                         /\ NothingRecorded(limiter.hour_requests[u],
                                            limiter'.hour_requests[u])
                         /\ NothingRecorded(limiter.day_requests[u],
                                            limiter'.day_requests[u])
                   /\ \A v \in LimiterUsers \ {u} :
                         /\ limiter'.minute_requests[v] = limiter.minute_requests[v]
                         /\ limiter'.hour_requests[v] = limiter.hour_requests[v]
                         /\ limiter'.day_requests[v] = limiter.day_requests[v]
                         /\ limiter'.admitted[v] = limiter.admitted[v]]_vars

\* a user with max_per_day admitted requests, of which the first two have
\* left the hour window, has just been rejected for the day limit, while
\* another user has a request admitted
C30_Witness ==
    /\ ~limiter.result.allowed /\ limiter.result.resource = "per_day_limit"
    /\ Len(limiter.admitted[limiter.result.user_id]) = max_per_day
    /\ Len(limiter.hour_requests[limiter.result.user_id]) < max_per_hour
    /\ \E v \in LimiterUsers \ {limiter.result.user_id} : Len(limiter.admitted[v]) = 1

====
